---- MODULE Spec2Model ----
(***************************************************************************)
(* The daily meal planner: app/services.py (text helpers, image and speech *)
(* generation) and app/main.py (POST /meal_plan, GET /meal_plan_html).     *)
(*                                                                         *)
(* Text is a sequence of one-character strings, so that splitlines, strip, *)
(* split and join are computed character by character as Python does.      *)
(***************************************************************************)
EXTENDS Integers, Sequences, FiniteSets, TLC

VARIABLES
    pc,            \* per request slot: where the handler generate_meal_plan is
    plan_text,     \* per request: what create_meals returned
    meal_sections, \* per request: the handler's meal_sections
    titles,        \* per request: the handler's titles
    idx,           \* per request: the loop index of the meal being built
    meals,         \* per request: the handler's list of Meal records
    response,      \* per request: what the client got back
    wrote,         \* per request (history): the paths this run has written
    backendFailed, \* per request (history): a backend call of this run failed
    files,         \* the static tree: path -> content
    htmlResp,      \* the last response of GET /meal_plan_html/{meal_name}
    slots,         \* the request slots the serving layer runs
    backend,       \* which texts the text-generation backend may return
    fnInput,       \* input of the text helper under test
    fnResult       \* its result

vars == <<pc, plan_text, meal_sections, titles, idx, meals, response, wrote,
          backendFailed, files, htmlResp, slots, backend, fnInput, fnResult>>

pipelineVars == <<pc, plan_text, meal_sections, titles, idx, meals, response,
                  wrote, backendFailed, files, htmlResp, slots, backend>>

----------------------------------------------------------------------------
(* Python's str methods on character sequences.                            *)

Min(S) == CHOOSE x \in S : \A y \in S : x <= y
Max(S) == CHOOSE x \in S : \A y \in S : x >= y

\* str.strip() with no argument strips whitespace.
Whitespace == {" ", "\t", "\n"}

StripChars(s, cs) ==
    LET keep == {i \in 1..Len(s) : s[i] \notin cs}
    IN  IF keep = {} THEN <<>> ELSE SubSeq(s, Min(keep), Max(keep))

Strip(s) == StripChars(s, Whitespace)

\* str.split(c) for a one-character separator: "".split(",") is [""].
RECURSIVE SplitOn(_, _)
SplitOn(s, c) ==
    LET hits == {i \in 1..Len(s) : s[i] = c}
    IN  IF hits = {} THEN <<s>>
        ELSE <<SubSeq(s, 1, Min(hits) - 1)>>
             \o SplitOn(SubSeq(s, Min(hits) + 1, Len(s)), c)

\* str.splitlines(): every "\n" ends a line, and a text that ends in "\n" (or
\* is empty) has no further, empty, line.
SplitLines(s) ==
    LET parts == SplitOn(s, "\n")
    IN  IF parts[Len(parts)] = <<>> THEN SubSeq(parts, 1, Len(parts) - 1)
        ELSE parts

\* "\n".join(b)
RECURSIVE JoinLines(_)
JoinLines(b) ==
    IF b = <<>> THEN <<>>
    ELSE IF Len(b) = 1 THEN b[1]
    ELSE b[1] \o <<"\n">> \o JoinLines(Tail(b))

----------------------------------------------------------------------------
(* services.py: split_meals and extract_titles.                            *)

MinDashes == 10

IsSeparatorGt(line) ==
    LET stripped == Strip(line)
    IN  /\ stripped # <<>>
        /\ {stripped[i] : i \in 1..Len(stripped)} = {"-"}
        /\ Len(stripped) > MinDashes

\* if stripped and set(stripped) == {"-"} and len(stripped) >= 10
IsSeparator(line) ==
    LET stripped == Strip(line)
    IN  /\ stripped # <<>>
        /\ {stripped[i] : i \in 1..Len(stripped)} = {"-"}
        /\ Len(stripped) >= MinDashes

\* The for loop of split_meals over lines[i..], with its blocks and current.
RECURSIVE SplitLoop(_, _, _, _)
SplitLoop(lines, i, blocks, current) ==
    IF i > Len(lines) THEN <<blocks, current>>
    ELSE IF IsSeparator(lines[i])
         THEN IF current # <<>>
              THEN SplitLoop(lines, i + 1, Append(blocks, current), <<>>)
              ELSE SplitLoop(lines, i + 1, blocks, current)
         ELSE SplitLoop(lines, i + 1, blocks, Append(current, lines[i]))

HasNonBlankLine(b) == \E i \in 1..Len(b) : Strip(b[i]) # <<>>

split_meals_no_flush(text) ==
    LET after  == SplitLoop(SplitLines(text), 1, <<>>, <<>>)
        kept   == SelectSeq(after[1], HasNonBlankLine)
    IN  [i \in 1..Len(kept) |-> Strip(JoinLines(kept[i]))]

split_meals(text) ==
    LET after  == SplitLoop(SplitLines(text), 1, <<>>, <<>>)
        blocks == IF after[2] # <<>> THEN Append(after[1], after[2]) ELSE after[1]
        kept   == SelectSeq(blocks, HasNonBlankLine)
    IN  [i \in 1..Len(kept) |-> Strip(JoinLines(kept[i]))]

TitleKeepFragment(t) == Strip(t) # <<>>

extract_titles_strip_first(text) ==
    LET lines == SplitLines(text)
    IN  IF lines = <<>> THEN <<>>
        ELSE LET titles_line == Strip(lines[Len(lines)])
                 frags == SplitOn(titles_line, ",")
                 strip == [i \in 1..Len(frags) |-> StripChars(frags[i], {" ", "'"})]
             IN  SelectSeq(strip, TitleKeepFragment)

\* titles = [t.strip(" '") for t in titles_line.split(",") if t.strip()]
extract_titles(text) ==
    LET lines == SplitLines(text)
    IN  IF lines = <<>> THEN <<>>
        ELSE LET titles_line == Strip(lines[Len(lines)])
                 frags == SelectSeq(SplitOn(titles_line, ","), TitleKeepFragment)
             IN  [i \in 1..Len(frags) |-> StripChars(frags[i], {" ", "'"})]

----------------------------------------------------------------------------
(* services.py: safe_filename, and the paths under app/static.             *)

SafeChars ==
    { "a", "b", "c", "d", "e", "f", "g", "h", "i", "j", "k", "l", "m",
      "n", "o", "p", "q", "r", "s", "t", "u", "v", "w", "x", "y", "z",
      "A", "B", "C", "D", "E", "F", "G", "H", "I", "J", "K", "L", "M",
      "N", "O", "P", "Q", "R", "S", "T", "U", "V", "W", "X", "Y", "Z",
      "0", "1", "2", "3", "4", "5", "6", "7", "8", "9", "_", "-" }

IsSafeChar(c) == c \in SafeChars

\* strip, replace(" ", "_"), re.sub(r"[^A-Za-z0-9_\-]", "", name)
safe_filename(name) ==
    LET stripped   == Strip(name)
        underscore == [i \in 1..Len(stripped) |->
                          IF stripped[i] = " " THEN "_" ELSE stripped[i]]
    IN  SelectSeq(underscore, IsSafeChar)

breakfast == <<"b", "r", "e", "a", "k", "f", "a", "s", "t">>
lunch     == <<"l", "u", "n", "c", "h">>
dinner    == <<"d", "i", "n", "n", "e", "r">>

meal_names == <<breakfast, lunch, dinner>>

TextPathMd(meal_name) == [dir |-> "recipes", stem |-> meal_name, ext |-> "md"]

\* os.path.join(html_text_dir, f"{meal_name}.txt"), html_text_dir = STATIC_DIR/recipes
TextPath(meal_name) == [dir |-> "recipes", stem |-> meal_name, ext |-> "txt"]

\* IMAGES_DIR / f"{safe_title}.png"
ImagePath(title) == [dir |-> "images", stem |-> safe_filename(title), ext |-> "png"]

\* AUDIO_DIR / f"{filename_prefix}.mp3"
AudioPath(filename_prefix) == [dir |-> "audio", stem |-> filename_prefix, ext |-> "mp3"]

\* str(request.base_url) + "static/" + the path relative to STATIC_DIR: the
\* URL is kept as the static file it names.
path_to_url(path) == [static |-> path]

\* open(path, "w") and write: the file is created or overwritten.
WriteFile(fs, path, content) ==
    [p \in DOMAIN fs \cup {path} |-> IF p = path THEN content ELSE fs[p]]

\* The parameters create_and_save_image declares.
ImageParamsWithPrefix == {"title", "model", "size", "quality", "extra", "filename_prefix"}

create_and_save_image_params == {"title", "model", "size", "quality", "extra"}

\* The arguments generate_meal_plan passes: title by position, the rest by keyword.
ImageCallKeywords == {"extra", "filename_prefix"}

\* Python binds a call's keywords to declared parameters or raises TypeError.
ImageCallBinds == ImageCallKeywords \subseteq create_and_save_image_params

----------------------------------------------------------------------------
(* The plans the text backend may return.                                  *)

UpperCase == <<"A", "B", "C", "D", "E", "F", "G", "H", "I", "J", "K", "L", "M",
               "N", "O", "P", "Q", "R", "S", "T", "U", "V", "W", "X", "Y", "Z">>
LowerCase == <<"a", "b", "c", "d", "e", "f", "g", "h", "i", "j", "k", "l", "m",
               "n", "o", "p", "q", "r", "s", "t", "u", "v", "w", "x", "y", "z">>

Dashes(n) == [i \in 1..n |-> "-"]

SepLine == Dashes(MinDashes)

BodyLine(i) == <<LowerCase[i]>>

TitleOf(i) == IF i = 1 THEN <<"A", " ", "b">> ELSE <<UpperCase[i]>>

\* k one-line bodies, from the one numbered first + 1, a separator line between each two.
RECURSIVE BodyLines(_, _)
BodyLines(first, k) ==
    IF k = 0 THEN <<>>
    ELSE IF k = 1 THEN <<BodyLine(first + 1)>>
    ELSE BodyLines(first, k - 1) \o <<SepLine, BodyLine(first + k)>>

\* The final line: m titles with ", " between them; a lone comma for no title.
RECURSIVE TitleLine(_, _)
TitleLine(first, m) ==
    IF m = 0 THEN <<",">>
    ELSE IF m = 1 THEN TitleOf(first + 1)
    ELSE TitleLine(first, m - 1) \o <<",", " ">> \o TitleOf(first + m)

\* A plan: an optional leading separator, k bodies, the title line either on
\* the line after the last body or after a separator of its own.
Plan(first, k, m, own, lead) ==
    JoinLines( (IF lead THEN <<SepLine>> ELSE <<>>)
               \o BodyLines(first, k)
               \o (IF own /\ k > 0 THEN <<SepLine>> ELSE <<>>)
               \o <<TitleLine(first, m)>> )

MaxBodies == 4
MaxTitles == 4

BlankTexts == { <<>>, <<" ", "\n">> }

PlanTexts ==
    BlankTexts \cup {SepLine}
    \cup { Plan(0, k, m, own, lead) :
             k \in 0..MaxBodies, m \in 0..MaxTitles, own \in BOOLEAN, lead \in BOOLEAN }

\* For concurrent requests: a blank answer, a plan of separators only, and two
\* well-formed plans that share no section and no title.
ConcurrentTexts ==
    { <<>>, SepLine, Plan(0, 3, 3, FALSE, FALSE), Plan(3, 2, 2, FALSE, FALSE) }

\* What create_meals may return, by the scenario the backend is set up for.
BackendTexts ==
    IF backend = "concurrent" THEN ConcurrentTexts
    ELSE IF backend = "plans" THEN PlanTexts
    ELSE {}

----------------------------------------------------------------------------
(* main.py: POST /meal_plan, one step per external call or file write.     *)

Take(s, n) == SubSeq(s, 1, IF n < Len(s) THEN n ELSE Len(s))

Zip(s, t) == [i \in 1..(IF Len(s) < Len(t) THEN Len(s) ELSE Len(t)) |-> <<s[i], t[i]>>]

GenerationDetail == "Meal plan generation failed."
MalformedDetail  == "Meal plan from GPT was empty or badly formatted."
UnhandledDetail  == "Internal Server Error"

NoResponse == [status |-> 0, detail |-> "", exc |-> "", raw_plan |-> <<>>, meals |-> <<>>]

ErrorResponseKeepingMeals(detail, exc, built) ==
    [status |-> 200, detail |-> detail, exc |-> exc, raw_plan |-> <<>>, meals |-> built]

\* A raise leaves the handler: the client gets status 500 and the detail, and
\* the meals built so far are dropped with the handler's frame.
ErrorResponse(detail, exc, built) ==
    [status |-> 500, detail |-> detail, exc |-> exc, raw_plan |-> <<>>, meals |-> <<>>]

\* if not plan_text or not plan_text.strip()
GenerationFailed(text) == text = <<>> \/ Strip(text) = <<>>

ReconcileNoCap(sections, ts) ==
    LET count == Min({Len(sections), Len(ts)})
    IN  IF count = 0
        THEN [ok |-> FALSE, meal_sections |-> sections, titles |-> ts]
        ELSE [ok |-> TRUE, meal_sections |-> Take(sections, count),
              titles |-> Take(ts, count)]

\* Lines 168 to 184: the count, the failure at 0, the two truncations.
Reconcile(sections, ts) ==
    IF Len(sections) < 3 \/ Len(ts) < 3
    THEN LET count == Min({3, Len(sections), Len(ts)})
         IN  IF count = 0
             THEN [ok |-> FALSE, meal_sections |-> sections, titles |-> ts]
             ELSE [ok |-> TRUE,
                   meal_sections |-> Take(Take(sections, count), 3),
                   titles |-> Take(Take(ts, count), 3)]
    ELSE [ok |-> TRUE, meal_sections |-> Take(sections, 3), titles |-> Take(ts, 3)]

Pairs(r) == Zip(meal_sections[r], titles[r])

Fail(r, detail, exc) ==
    /\ pc' = [pc EXCEPT ![r] = "Failed"]
    /\ response' = [response EXCEPT ![r] = ErrorResponse(detail, exc, meals[r])]

\* The head of the for loop with i meals built: the next pair, or the return.
LoopHead(r, i, built) ==
    IF i < Len(Pairs(r))
    THEN /\ pc' = [pc EXCEPT ![r] = "BuildingMeals"]
         /\ UNCHANGED response
    ELSE /\ pc' = [pc EXCEPT ![r] = "Success"]
         /\ response' = [response EXCEPT ![r] =
                [status |-> 200, detail |-> "", exc |-> "",
                 raw_plan |-> plan_text[r], meals |-> built]]

\* A request arrives in a free slot and create_meals is called; the backend
\* answers with a text or raises.
RequestPlan(r) ==
    /\ pc[r] \in {"Idle", "Success", "Failed"}
    /\ meal_sections' = [meal_sections EXCEPT ![r] = <<>>]
    /\ titles' = [titles EXCEPT ![r] = <<>>]
    /\ idx' = [idx EXCEPT ![r] = 0]
    /\ meals' = [meals EXCEPT ![r] = <<>>]
    /\ wrote' = [wrote EXCEPT ![r] = {}]
    /\ \E answered \in BOOLEAN :
        IF ~answered
        THEN /\ plan_text' = [plan_text EXCEPT ![r] = <<>>]
             /\ backendFailed' = [backendFailed EXCEPT ![r] = TRUE]
             /\ pc' = [pc EXCEPT ![r] = "Failed"]
             /\ response' = [response EXCEPT ![r] =
                    ErrorResponse(UnhandledDetail, "APIError", <<>>)]
        ELSE \E text \in BackendTexts :
             /\ plan_text' = [plan_text EXCEPT ![r] = text]
             /\ backendFailed' = [backendFailed EXCEPT ![r] = FALSE]
             /\ IF GenerationFailed(text)
                THEN /\ pc' = [pc EXCEPT ![r] = "Failed"]
                     /\ response' = [response EXCEPT ![r] =
                            ErrorResponse(GenerationDetail, "HTTPException", <<>>)]
                ELSE /\ pc' = [pc EXCEPT ![r] = "Segmenting"]
                     /\ response' = [response EXCEPT ![r] = NoResponse]
    /\ UNCHANGED <<files, htmlResp, slots, backend, fnInput, fnResult>>

\* split_meals, extract_titles and the reconciliation of lines 168 to 184.
Segment(r) ==
    /\ pc[r] = "Segmenting"
    /\ LET rec == Reconcile(split_meals(plan_text[r]), extract_titles(plan_text[r]))
       IN  /\ meal_sections' = [meal_sections EXCEPT ![r] = rec.meal_sections]
           /\ titles' = [titles EXCEPT ![r] = rec.titles]
           /\ IF ~rec.ok
              THEN Fail(r, MalformedDetail, "HTTPException")
              ELSE IF Len(Zip(rec.meal_sections, rec.titles)) > 0
                   THEN /\ pc' = [pc EXCEPT ![r] = "BuildingMeals"]
                        /\ UNCHANGED response
                   ELSE /\ pc' = [pc EXCEPT ![r] = "Success"]
                        /\ response' = [response EXCEPT ![r] =
                               [status |-> 200, detail |-> "", exc |-> "",
                                raw_plan |-> plan_text[r], meals |-> <<>>]]
    /\ UNCHANGED <<plan_text, idx, meals, wrote, backendFailed, files, htmlResp,
                   slots, backend, fnInput, fnResult>>

\* meal_name = meal_names[idx], then the recipe text is written for the HTML view.
WriteRecipe(r) ==
    /\ pc[r] = "BuildingMeals"
    /\ IF idx[r] >= Len(meal_names)
       THEN /\ Fail(r, UnhandledDetail, "IndexError")
            /\ UNCHANGED <<files, wrote>>
       ELSE LET meal_name == meal_names[idx[r] + 1]
                section_text == Pairs(r)[idx[r] + 1][1]
            IN  /\ files' = WriteFile(files, TextPath(meal_name), section_text)
                /\ wrote' = [wrote EXCEPT ![r] = @ \cup {TextPath(meal_name)}]
                /\ pc' = [pc EXCEPT ![r] = "RequestingImage"]
                /\ UNCHANGED response
    /\ UNCHANGED <<plan_text, meal_sections, titles, idx, meals, backendFailed,
                   htmlResp, slots, backend, fnInput, fnResult>>

\* What the backend calls of one loop iteration may do: images.generate and
\* the two calls of speak answer or raise, the download has a status.
BackendOutcomes ==
    [image : BOOLEAN, status : {200, 404}, spoken : BOOLEAN, speech : BOOLEAN]

\* The rest of the iteration once create_and_save_image has been entered:
\* its body, path_to_url, speak, the Meal record and the loop head.
FinishMeal(r, out) ==
    LET meal_name    == meal_names[idx[r] + 1]
        section_text == Pairs(r)[idx[r] + 1][1]
        title        == Pairs(r)[idx[r] + 1][2]
        withImage    == WriteFile(files, ImagePath(title), title)
        withAudio    == WriteFile(withImage, AudioPath(meal_name), section_text)
        meal         == [title |-> title, text |-> section_text,
                         image_url |-> path_to_url(ImagePath(title)),
                         audio_url |-> path_to_url(AudioPath(meal_name)),
                         html_url |-> [meal_plan_html |-> meal_name]]
    IN  IF ~out.image
        THEN /\ Fail(r, UnhandledDetail, "APIError")
             /\ backendFailed' = [backendFailed EXCEPT ![r] = TRUE]
             /\ UNCHANGED <<files, wrote, meals, idx>>
        ELSE IF out.status # 200
        THEN /\ Fail(r, UnhandledDetail, "RuntimeError")
             /\ backendFailed' = [backendFailed EXCEPT ![r] = TRUE]
             /\ UNCHANGED <<files, wrote, meals, idx>>
        ELSE IF ~out.spoken \/ ~out.speech
        THEN /\ Fail(r, UnhandledDetail, "APIError")
             /\ backendFailed' = [backendFailed EXCEPT ![r] = TRUE]
             /\ files' = withImage
             /\ wrote' = [wrote EXCEPT ![r] = @ \cup {ImagePath(title)}]
             /\ UNCHANGED <<meals, idx>>
        ELSE /\ files' = withAudio
             /\ wrote' = [wrote EXCEPT ![r] =
                    @ \cup {ImagePath(title), AudioPath(meal_name)}]
             /\ meals' = [meals EXCEPT ![r] = Append(@, meal)]
             /\ idx' = [idx EXCEPT ![r] = @ + 1]
             /\ LoopHead(r, idx[r] + 1, Append(meals[r], meal))
             /\ UNCHANGED backendFailed

\* create_and_save_image(title, extra="white background", filename_prefix=meal_name):
\* the call raises TypeError before the function's body runs unless every
\* keyword is a declared parameter.
CreateImage(r) ==
    /\ pc[r] = "RequestingImage"
    /\ IF ~ImageCallBinds
       THEN /\ Fail(r, UnhandledDetail, "TypeError")
            /\ UNCHANGED <<files, wrote, meals, idx, backendFailed>>
       ELSE \E out \in BackendOutcomes : FinishMeal(r, out)
    /\ UNCHANGED <<plan_text, meal_sections, titles, htmlResp, slots, backend,
                   fnInput, fnResult>>

----------------------------------------------------------------------------
(* main.py: GET /meal_plan_html/{meal_name}.                               *)

\* str.lower()
Lower(s) ==
    [i \in 1..Len(s) |->
        IF \E k \in 1..Len(UpperCase) : UpperCase[k] = s[i]
        THEN LowerCase[CHOOSE k \in 1..Len(UpperCase) : UpperCase[k] = s[i]]
        ELSE s[i]]

valid == {breakfast, lunch, dinner}

\* The names a client asks for: two canonical ones, one in capitals, one unknown.
MealNameChoices ==
    { breakfast, <<"L", "u", "n", "c", "h">>, <<"D", "I", "N", "N", "E", "R">>,
      <<"s", "n", "a", "c", "k">> }

\* The recipe file is opened relative to the working directory, app/static/recipes,
\* which is STATIC_DIR/recipes when the server runs from the project root, as
\* its template directory "app/templates" requires.
GetMealHtml(name) ==
    /\ htmlResp' =
        IF Lower(name) \notin valid
        THEN [status |-> 400, asked |-> name]
        ELSE IF TextPath(Lower(name)) \notin DOMAIN files
        THEN [status |-> 404, asked |-> name]
        ELSE [status |-> 200, asked |-> name,
              body |-> files[TextPath(Lower(name))],
              image_url |-> [static |-> [dir |-> "images", stem |-> Lower(name), ext |-> "png"]],
              audio_url |-> [static |-> [dir |-> "audio", stem |-> Lower(name), ext |-> "mp3"]]]
    /\ UNCHANGED <<pc, plan_text, meal_sections, titles, idx, meals, response,
                   wrote, backendFailed, files, slots, backend, fnInput, fnResult>>

----------------------------------------------------------------------------
(* The specifications.                                                     *)

NumRequests == 2

InitPipeline(slotSet, scenario) ==
    /\ slots = slotSet
    /\ backend = scenario
    /\ pc = [r \in slotSet |-> "Idle"]
    /\ plan_text = [r \in slotSet |-> <<>>]
    /\ meal_sections = [r \in slotSet |-> <<>>]
    /\ titles = [r \in slotSet |-> <<>>]
    /\ idx = [r \in slotSet |-> 0]
    /\ meals = [r \in slotSet |-> <<>>]
    /\ response = [r \in slotSet |-> NoResponse]
    /\ wrote = [r \in slotSet |-> {}]
    /\ backendFailed = [r \in slotSet |-> FALSE]
    /\ files = <<>>
    /\ htmlResp = [status |-> 0]

NoHelperRun ==
    /\ fnInput = <<>>
    /\ fnResult = [done |-> FALSE, value |-> <<>>]

\* Requests served concurrently, with GET requests in between.
Init == InitPipeline(1..NumRequests, "concurrent") /\ NoHelperRun

\* One request after the other, over every plan shape.
InitPlan == InitPipeline({1}, "plans") /\ NoHelperRun

Next ==
    \/ \E r \in slots : RequestPlan(r)
    \/ \E r \in slots : Segment(r)
    \/ \E r \in slots : WriteRecipe(r)
    \/ \E r \in slots : CreateImage(r)
    \/ \E name \in MealNameChoices : GetMealHtml(name)

Spec == Init /\ [][Next]_vars

\* POST /meal_plan alone.
NextPlan ==
    \/ \E r \in slots : RequestPlan(r)
    \/ \E r \in slots : Segment(r)
    \/ \E r \in slots : WriteRecipe(r)
    \/ \E r \in slots : CreateImage(r)

SpecPlan == InitPlan /\ [][NextPlan]_vars

----------------------------------------------------------------------------
(* The text helpers applied to inputs drawn from bounded sets.             *)

MaxLines == 5

\* Lines a plan may hold: blank ones, content, and dash runs below, at and
\* above the separator floor, bare, padded and mixed with other characters.
SplitLineChoices ==
    { <<>>, <<" ">>, <<"a">>, <<" ", "b", " ">>,
      Dashes(MinDashes), <<" ">> \o Dashes(MinDashes + 1) \o <<" ">>,
      Dashes(MinDashes - 1), Dashes(MinDashes) \o <<"a">> }

SplitInputs ==
    { JoinLines(ls) : ls \in UNION { [1..n -> SplitLineChoices] : n \in 0..MaxLines } }

MaxTitleLen == 5

TitleAlphabet == {"A", " ", "'", ",", "\n", "\t"}

\* The line of section 8 of the specification, alone and inside a plan.
TitleExamples ==
    { <<"'", "A", "'", ",", " ", "B", " ", ",", "C">>,
      <<"a", "\n", "'", "A", "'", ",", " ", "B", " ", ",", "C", "\n">> }

TitleInputs ==
    UNION { [1..n -> TitleAlphabet] : n \in 0..MaxTitleLen } \cup TitleExamples

InitPipelineIdle == InitPipeline({}, "none")

InitSplit ==
    /\ InitPipelineIdle
    /\ fnInput \in SplitInputs
    /\ fnResult = [done |-> FALSE, value |-> <<>>]

ApplySplitMeals ==
    /\ ~fnResult.done
    /\ fnResult' = [done |-> TRUE, value |-> split_meals(fnInput)]
    /\ UNCHANGED <<fnInput, pipelineVars>>

NextSplit == ApplySplitMeals

SpecSplit == InitSplit /\ [][NextSplit]_vars

InitTitles ==
    /\ InitPipelineIdle
    /\ fnInput \in TitleInputs
    /\ fnResult = [done |-> FALSE, value |-> <<>>]

ApplyExtractTitles ==
    /\ ~fnResult.done
    /\ fnResult' = [done |-> TRUE, value |-> extract_titles(fnInput)]
    /\ UNCHANGED <<fnInput, pipelineVars>>

NextTitles == ApplyExtractTitles

SpecTitles == InitTitles /\ [][NextTitles]_vars

----------------------------------------------------------------------------
(* create_and_save_image called with the parameters it declares.           *)

\* Titles as extract_titles returns them, one of them a canonical name.
ImageTitles ==
    {TitleOf(i) : i \in 1..4} \cup {breakfast, <<"A", "*", "b">>}

\* images.generate raises or answers; requests.get answers 200 or not.
ImageOutcomes == [image : BOOLEAN, status : {200, 404}]

InitImage == InitPipelineIdle /\ NoHelperRun

\* The body of create_and_save_image: the image is written under
\* IMAGE_DIR / f"{safe_filename(title)}.png" unless a call raised before.
ApplyCreateAndSaveImage ==
    \E title \in ImageTitles, out \in ImageOutcomes :
        /\ fnInput' = title
        /\ IF out.image /\ out.status = 200
           THEN /\ files' = WriteFile(files, ImagePath(title), title)
                /\ fnResult' = [done |-> TRUE, value |-> ImagePath(title)]
           ELSE /\ files' = files
                /\ fnResult' = [done |-> FALSE, value |-> <<>>]
        /\ UNCHANGED <<pc, plan_text, meal_sections, titles, idx, meals,
                       response, wrote, backendFailed, htmlResp, slots, backend>>

NextImage == ApplyCreateAndSaveImage

SpecImage == InitImage /\ [][NextImage]_vars

----------------------------------------------------------------------------
(* C6: the Segmenter.                                                      *)

\* A separator as the claim words it: trimmed, non-empty, all dashes, length >= 10.
ClaimSeparator(line) ==
    LET t == Strip(line)
    IN  Len(t) >= 10 /\ \A i \in 1..Len(t) : t[i] = "-"

ClaimBlank(line) == \A i \in 1..Len(line) : line[i] \in Whitespace

\* The maximal runs of non-separator lines holding a non-blank line, as
\* pairs <<first, last>> of line numbers.
MaximalRuns(lines) ==
    { run \in (1..Len(lines)) \X (1..Len(lines)) :
        /\ run[1] <= run[2]
        /\ \A k \in run[1]..run[2] : ~ClaimSeparator(lines[k])
        /\ run[1] = 1 \/ ClaimSeparator(lines[run[1] - 1])
        /\ run[2] = Len(lines) \/ ClaimSeparator(lines[run[2] + 1])
        /\ \E k \in run[1]..run[2] : ~ClaimBlank(lines[k]) }

NthRun(runs, n) == CHOOSE run \in runs : Cardinality({o \in runs : o[1] < run[1]}) = n - 1

ClaimBlocks(text) ==
    LET lines == SplitLines(text)
        runs  == MaximalRuns(lines)
    IN  [n \in 1..Cardinality(runs) |->
            LET run == NthRun(runs, n)
            IN  Strip(JoinLines(SubSeq(lines, run[1], run[2])))]

SeparatorCount(text) ==
    LET lines == SplitLines(text)
    IN  Cardinality({k \in 1..Len(lines) : ClaimSeparator(lines[k])})

\* Non-blank content before the first separator, between each two and after the last.
ContentAroundEachSeparator(text) ==
    LET lines == SplitLines(text)
        seps  == {k \in 1..Len(lines) : ClaimSeparator(lines[k])}
        edges == seps \cup {0, Len(lines) + 1}
    IN  \A e \in edges \ {Len(lines) + 1} :
            LET next == Min({f \in edges : f > e})
            IN  \E k \in (e + 1)..(next - 1) : ~ClaimBlank(lines[k])

\* C6: split_meals returns the maximal runs of non-separator lines that hold a
\* non-blank line, in input order, each as the trimmed join of its lines; k
\* separators with non-blank content around each give k+1 blocks and never
\* more; no block holds a separator line and no block is empty.
C6_SplitMealsIsMaximalRuns ==
    fnResult.done =>
        LET out == fnResult.value
            k   == SeparatorCount(fnInput)
        IN  /\ out = ClaimBlocks(fnInput)
            /\ Len(out) <= k + 1
            /\ ContentAroundEachSeparator(fnInput) => Len(out) = k + 1
            /\ \A i \in 1..Len(out) :
                /\ out[i] # <<>>
                /\ \A l \in 1..Len(SplitLines(out[i])) :
                       ~ClaimSeparator(SplitLines(out[i])[l])

\* Two separators with content around each gave three blocks, and a blank-only
\* run was dropped from another input.
C6_Witness ==
    /\ fnResult.done
    /\ SeparatorCount(fnInput) = 2
    /\ ContentAroundEachSeparator(fnInput)
    /\ Len(fnResult.value) = 3
    /\ \E l \in 1..Len(SplitLines(fnInput)) : Len(SplitLines(fnInput)[l]) = MinDashes

----------------------------------------------------------------------------
(* C7: the TitleExtractor.                                                 *)

NthSmallest(S, n) == CHOOSE x \in S : Cardinality({y \in S : y < x}) = n - 1

\* The comma-separated fragments of a line, by the positions of its commas.
FragmentsOf(line) ==
    LET commas == {i \in 1..Len(line) : line[i] = ","}
        edges  == commas \cup {0, Len(line) + 1}
    IN  [n \in 1..(Cardinality(commas) + 1) |->
            SubSeq(line, NthSmallest(edges, n) + 1, NthSmallest(edges, n + 1) - 1)]

ClaimTrimmed(fragment) == StripChars(fragment, Whitespace \cup {"'"})

ClaimNotEmpty(fragment) == fragment # <<>>

\* The claim's algorithm on a chosen title line: split on commas, trim
\* whitespace and single quotes, discard what is empty after trimming.
ClaimTitlesOfLine(line) ==
    LET frags   == FragmentsOf(line)
        trimmed == [n \in 1..Len(frags) |-> ClaimTrimmed(frags[n])]
    IN  SelectSeq(trimmed, ClaimNotEmpty)

\* The last non-empty line, "non-empty" read as "holds a character" (TRUE) or
\* as "holds a non-blank character" (FALSE); <<>> when there is none.
ClaimLastNonEmptyLine(text, literal) ==
    LET lines == SplitLines(text)
        full  == {k \in 1..Len(lines) :
                    IF literal THEN lines[k] # <<>> ELSE ~ClaimBlank(lines[k])}
    IN  IF full = {} THEN <<>> ELSE lines[Max(full)]

\* C7 as stated: extract_titles works on the last non-empty line, trims
\* whitespace and single quotes from each comma-separated fragment and discards
\* the fragments that are empty after trimming, so that no title is empty.
\* Either reading of "non-empty line" is accepted.
C7_AsClaimed ==
    fnResult.done =>
        /\ \E literal \in BOOLEAN :
               fnResult.value = ClaimTitlesOfLine(ClaimLastNonEmptyLine(fnInput, literal))
        /\ \A n \in 1..Len(fnResult.value) : fnResult.value[n] # <<>>

\* The last line as splitlines gives it: what follows the last line break
\* that is not the text's final character.
LastLineOf(text) ==
    LET body == IF text # <<>> /\ text[Len(text)] = "\n"
                THEN SubSeq(text, 1, Len(text) - 1) ELSE text
        nls  == {i \in 1..Len(body) : body[i] = "\n"}
    IN  SubSeq(body, IF nls = {} THEN 1 ELSE Max(nls) + 1, Len(body))

NotBlankFragment(fragment) == ~ClaimBlank(fragment)

AmendedTitles(text) ==
    IF text = <<>> THEN <<>>
    ELSE LET kept == SelectSeq(FragmentsOf(Strip(LastLineOf(text))), NotBlankFragment)
         IN  [n \in 1..Len(kept) |-> StripChars(kept[n], {" ", "'"})]

\* C7, amended: extract_titles works on the last line of the text as
\* splitlines gives it (a blank last line gives no titles, whatever precedes
\* it), trimmed; it splits that line on commas, discards the fragments that are
\* whitespace only, and strips spaces and single quotes (no other whitespace)
\* from both ends of each fragment it keeps, in order. A kept fragment made of
\* quotes and spaces only gives an empty title. Blank-only input gives no
\* titles, and one final line break does not change the result.
C7_ExtractTitlesLastLine ==
    fnResult.done =>
        /\ fnResult.value = AmendedTitles(fnInput)
        /\ (\A i \in 1..Len(fnInput) : fnInput[i] \in Whitespace) => fnResult.value = <<>>
        /\ \A n \in 1..Len(fnResult.value) :
               LET t == fnResult.value[n]
               IN  t # <<>> => t[1] \notin {" ", "'"} /\ t[Len(t)] \notin {" ", "'"}

\* A title line followed by a blank line gave no titles.
C7_Witness ==
    /\ fnResult.done
    /\ \E k \in 1..Len(SplitLines(fnInput)) :
           /\ k < Len(SplitLines(fnInput))
           /\ ClaimTitlesOfLine(SplitLines(fnInput)[k]) # <<>>
    /\ ClaimBlank(SplitLines(fnInput)[Len(SplitLines(fnInput))])
    /\ fnResult.value = <<>>

----------------------------------------------------------------------------
(* The claims about POST /meal_plan and GET /meal_plan_html.               *)

Terminal(r) == pc[r] \in {"Success", "Failed"}

\* The handler of slot r has run split_meals, extract_titles and the reconciliation.
Segmented(r) ==
    \/ pc[r] \in {"BuildingMeals", "RequestingImage", "Success"}
    \/ pc[r] = "Failed" /\ ~GenerationFailed(plan_text[r])

MalformedFailure(r) == pc[r] = "Failed" /\ response[r].detail = MalformedDetail

CanonicalName(i) == CASE i = 0 -> breakfast [] i = 1 -> lunch [] i = 2 -> dinner

ClaimRecipePath(i) == [dir |-> "recipes", stem |-> CanonicalName(i), ext |-> "txt"]
ClaimImagePath(i)  == [dir |-> "images", stem |-> CanonicalName(i), ext |-> "png"]
ClaimAudioPath(i)  == [dir |-> "audio", stem |-> CanonicalName(i), ext |-> "mp3"]

CanonicalPaths(i) == {ClaimRecipePath(i), ClaimImagePath(i), ClaimAudioPath(i)}

\* C1: with n = min(3, sections, titles), the request fails as empty or
\* malformed exactly when n = 0; otherwise the meals selected for building are
\* exactly the pairs (section i, title i), i < n, in position order.
C1_Reconciliation ==
    \A r \in slots :
        Segmented(r) =>
            LET s == split_meals(plan_text[r])
                t == extract_titles(plan_text[r])
                n == Min({3, Len(s), Len(t)})
            IN  /\ MalformedFailure(r) <=> n = 0
                /\ n > 0 => Pairs(r) = [i \in 1..n |-> <<s[i], t[i]>>]

\* Four sections and two titles gave the first two pairs.
C1_Witness ==
    \E r \in slots :
        /\ Segmented(r)
        /\ Len(split_meals(plan_text[r])) = 4
        /\ Len(extract_titles(plan_text[r])) = 2
        /\ Len(Pairs(r)) = 2

\* The URLs of the meal of slot index i, as the claims name them.
ClaimMealUrls(i) ==
    [image_url |-> [static |-> ClaimImagePath(i)],
     audio_url |-> [static |-> ClaimAudioPath(i)],
     html_url  |-> [meal_plan_html |-> CanonicalName(i)]]

\* Three dash-separated sections and a final line of three titles.
ThreeMealPlans == { Plan(0, 3, 3, FALSE, FALSE), Plan(0, 3, 3, TRUE, FALSE) }

\* C3 as stated: a request whose plan has three dash-separated sections and a
\* final line of three titles, and whose backend calls and download all
\* succeed, ends in Success with three records, titled by the three titles in
\* order and identified breakfast, lunch, dinner.
C3_AsClaimed ==
    \A r \in slots :
        (Terminal(r) /\ plan_text[r] \in ThreeMealPlans /\ ~backendFailed[r]) =>
            /\ pc[r] = "Success"
            /\ response[r].status = 200
            /\ Len(response[r].meals) = 3
            /\ \A i \in 0..2 :
                LET meal == response[r].meals[i + 1]
                IN  /\ meal.title = TitleOf(i + 1)
                    /\ meal.image_url = ClaimMealUrls(i).image_url
                    /\ meal.audio_url = ClaimMealUrls(i).audio_url
                    /\ meal.html_url = ClaimMealUrls(i).html_url

\* Exactly two separator lines and a final line of three titles.
TwoSeparatorsThreeTitles(text) ==
    /\ SeparatorCount(text) = 2
    /\ Len(ClaimTitlesOfLine(LastLineOf(text))) = 3

\* C5 as stated: a plan with exactly two separator lines and a final line of
\* three titles has two meals selected.
C5_AsClaimed ==
    \A r \in slots :
        (Segmented(r) /\ TwoSeparatorsThreeTitles(plan_text[r])) => Len(Pairs(r)) = 2

\* C5, amended: for a plan with exactly two separator lines and a final line
\* of three titles, the number of meals selected is the number of the three
\* runs of lines (before, between and after the separators) that hold a
\* non-blank line: between 1 and 3, and 3 when there is content around each
\* separator, since the title line itself belongs to the last run.
C5_TwoSeparatorsCountRuns ==
    \A r \in slots :
        (Segmented(r) /\ TwoSeparatorsThreeTitles(plan_text[r])) =>
            LET runs == Cardinality(MaximalRuns(SplitLines(plan_text[r])))
            IN  /\ Len(Pairs(r)) = runs
                /\ runs \in 1..3
                /\ ContentAroundEachSeparator(plan_text[r]) => Len(Pairs(r)) = 3

\* Two separators, content around each, three titles: three meals selected.
C5_Witness ==
    \E r \in slots :
        /\ Segmented(r)
        /\ TwoSeparatorsThreeTitles(plan_text[r])
        /\ ContentAroundEachSeparator(plan_text[r])
        /\ Len(Pairs(r)) = 3

C2_CanonicalPathsOnly ==
    /\ \A p \in DOMAIN files : \E i \in 0..2 : p \in CanonicalPaths(i)
    /\ \A r \in slots : \A p \in wrote[r] :
           \E i \in 0..2 : i <= idx[r] /\ p \in CanonicalPaths(i)
    /\ \A r1, r2 \in slots :
           ( /\ Terminal(r1) /\ Terminal(r2)
             /\ plan_text[r1] = plan_text[r2]
             /\ response[r1] = response[r2]
             /\ idx[r1] = idx[r2] ) => wrote[r1] = wrote[r2]

\* Two runs of the same plan have both written, and one file exists.
C2_Witness ==
    \E r1, r2 \in slots :
        /\ r1 # r2
        /\ Terminal(r1) /\ Terminal(r2)
        /\ plan_text[r1] = plan_text[r2]
        /\ wrote[r1] # {} /\ wrote[r2] = wrote[r1]
        /\ DOMAIN files = wrote[r1]

ClaimedHtml(resp, fs) ==
    LET name == Lower(resp.asked)
        ids  == {i \in 0..2 : CanonicalName(i) = name}
    IN  /\ resp.status = 400 <=> ids = {}
        /\ ids # {} =>
            LET i == CHOOSE i \in ids : TRUE
            IN  /\ resp.status = 404 <=> ClaimRecipePath(i) \notin DOMAIN fs
                /\ resp.status \in {404, 200}
                /\ resp.status = 200 =>
                    /\ resp.body = fs[ClaimRecipePath(i)]
                    /\ resp.image_url = [static |-> ClaimImagePath(i)]
                    /\ resp.audio_url = [static |-> ClaimAudioPath(i)]
                    /\ resp.image_url.static \in DOMAIN fs
                    /\ resp.audio_url.static \in DOMAIN fs

\* C8 as stated: every response of GET /meal_plan_html is 400 for an unknown
\* name, 404 while no recipe text exists for the identifier, and otherwise a
\* page of the latest recipe text whose image and audio URLs resolve to files
\* the pipeline has written for that identifier.
C8_AsClaimed == [][htmlResp' # htmlResp => ClaimedHtml(htmlResp', files')]_vars

\* The records a plan text determines by itself.
OwnRecords(text) ==
    LET s == split_meals(text)
        t == extract_titles(text)
        n == Min({3, Len(s), Len(t)})
    IN  [i \in 1..n |-> [title |-> t[i], text |-> s[i]]]

====
